---- MODULE Spec2Model ----
(***************************************************************************)
(* Model of scripts/version_bump.py: the semantic-version model            *)
(* (parse_semver, compare_semver, semver_to_str, bump_semver), the three   *)
(* writers and the interactive driver main().                              *)
(*                                                                         *)
(* A Python str is a sequence of one-character strings.  Characters that   *)
(* have no printable ASCII form are named by their code point:             *)
(*   "u0663"  ARABIC-INDIC DIGIT THREE  (str.isdigit, int() gives 3)       *)
(*   "u00B2"  SUPERSCRIPT TWO           (str.isdigit, int() raises)        *)
(*   "TAB"    horizontal tab                                               *)
(* Text files are sequences of tokens; a line terminator is the token      *)
(* "LF" or "CRLF".                                                         *)
(***************************************************************************)
EXTENDS Integers, Sequences, FiniteSets, TLC

(***************************************************************************)
(* Bounds of the model.                                                    *)
(***************************************************************************)
\* longest version string handed to parse_semver in SpecSemver
MaxLen == 5
\* largest component of a Version handed to bump_semver in SpecSemver
MaxComponent == 11
\* number of guidance messages after which the operator stops mistyping
MaxRetries == 2

(***************************************************************************)
(* Python str and int built-ins used by the script.                        *)
(***************************************************************************)
AsciiDigits == {"0", "1", "2", "3", "4", "5", "6", "7", "8", "9"}

\* int() of one decimal character (Unicode category Nd)
DecimalValue ==
    [c \in AsciiDigits \cup {"u0663"} |->
        CASE c = "0" -> 0 [] c = "1" -> 1 [] c = "2" -> 2 [] c = "3" -> 3
          [] c = "4" -> 4 [] c = "5" -> 5 [] c = "6" -> 6 [] c = "7" -> 7
          [] c = "8" -> 8 [] c = "9" -> 9 [] c = "u0663" -> 3]

DigitChar == <<"0", "1", "2", "3", "4", "5", "6", "7", "8", "9">>

\* str.isdigit(): non-empty and every character has Numeric_Type Digit or Decimal
isdigit(s) ==
    /\ Len(s) > 0
    /\ \A i \in 1..Len(s) : s[i] \in AsciiDigits \cup {"u0663", "u00B2"}

\* int(s) accepts s (already known to satisfy isdigit) iff every character is decimal
IntAccepts(s) == \A i \in 1..Len(s) : s[i] \in DOMAIN DecimalValue

RECURSIVE int(_)
int(s) ==
    IF Len(s) = 0 THEN 0
    ELSE 10 * int(SubSeq(s, 1, Len(s) - 1)) + DecimalValue[s[Len(s)]]

\* str(n) for n >= 0, as the f-string of semver_to_str renders an int
RECURSIVE str(_)
str(n) ==
    IF n < 10 THEN <<DigitChar[n + 1]>>
    ELSE str(n \div 10) \o <<DigitChar[(n % 10) + 1]>>

\* s.split(sep) for a one-character separator
RECURSIVE split(_, _)
split(s, sep) ==
    IF \A i \in 1..Len(s) : s[i] # sep THEN <<s>>
    ELSE LET k == CHOOSE i \in 1..Len(s) :
                      s[i] = sep /\ \A j \in 1..(i - 1) : s[j] # sep
         IN  <<SubSeq(s, 1, k - 1)>> \o split(SubSeq(s, k + 1, Len(s)), sep)

(***************************************************************************)
(* Semver model.                                                           *)
(***************************************************************************)
Version(major, minor, patch) ==
    [major |-> major, minor |-> minor, patch |-> patch]

\* parse_semver without its check of the number of segments
parse_semver_any_length(version) ==
    LET sep == split(version, ".")
    IN  IF Len(sep) < 3 THEN [ok |-> FALSE, err |-> "AssertionError"]
        ELSE IF ~ \A i \in 1..Len(sep) : isdigit(sep[i])
             THEN [ok |-> FALSE, err |-> "AssertionError"]
        ELSE IF ~ \A i \in 1..Len(sep) : IntAccepts(sep[i])
             THEN [ok |-> FALSE, err |-> "ValueError"]
        ELSE [ok |-> TRUE,
              v |-> Version(int(sep[1]), int(sep[2]), int(sep[3]))]

\* parse_semver that drops a pre-release tag or build metadata before parsing
parse_semver_drops_tag(version) ==
    LET cut == {i \in 1..Len(version) : version[i] \in {"-", "+"}}
        core == IF cut = {} THEN version
                ELSE SubSeq(version, 1,
                            (CHOOSE i \in cut : \A j \in cut : i <= j) - 1)
        sep == split(core, ".")
    IN  IF Len(sep) # 3 THEN [ok |-> FALSE, err |-> "AssertionError"]
        ELSE IF ~ \A i \in 1..3 : isdigit(sep[i])
             THEN [ok |-> FALSE, err |-> "AssertionError"]
        ELSE IF ~ \A i \in 1..3 : IntAccepts(sep[i])
             THEN [ok |-> FALSE, err |-> "ValueError"]
        ELSE [ok |-> TRUE,
              v |-> Version(int(sep[1]), int(sep[2]), int(sep[3]))]

\* parse_semver: the Version, or the exception that ends the process
parse_semver(version) ==
    LET sep == split(version, ".")
    IN  IF Len(sep) # 3 THEN [ok |-> FALSE, err |-> "AssertionError"]
        ELSE IF ~ \A i \in 1..3 : isdigit(sep[i])
             THEN [ok |-> FALSE, err |-> "AssertionError"]
        ELSE IF ~ \A i \in 1..3 : IntAccepts(sep[i])
             THEN [ok |-> FALSE, err |-> "ValueError"]
        ELSE [ok |-> TRUE,
              v |-> Version(int(sep[1]), int(sep[2]), int(sep[3]))]

\* compare_semver that forgets the patch component
compare_semver_no_patch(v1, v2) ==
    v1.major = v2.major /\ v1.minor = v2.minor

compare_semver(v1, v2) ==
    v1.major = v2.major /\ v1.minor = v2.minor /\ v1.patch = v2.patch

semver_to_str(v) ==
    str(v.major) \o <<".">> \o str(v.minor) \o <<".">> \o str(v.patch)

\* the three bump classes, as Python strs
MAJOR == <<"m", "a", "j", "o", "r">>
MINOR == <<"m", "i", "n", "o", "r">>
PATCH == <<"p", "a", "t", "c", "h">>
BumpTypes == {MAJOR, MINOR, PATCH}

\* bump_semver whose minor bump keeps the patch component
bump_semver_keeps_patch(version, bump_type) ==
    IF bump_type = MAJOR
    THEN semver_to_str(Version(version.major + 1, 0, 0))
    ELSE IF bump_type = MINOR
    THEN semver_to_str(Version(version.major, version.minor + 1, version.patch))
    ELSE semver_to_str(Version(version.major, version.minor, version.patch + 1))

bump_semver(version, bump_type) ==
    IF bump_type = MAJOR
    THEN semver_to_str(Version(version.major + 1, 0, 0))
    ELSE IF bump_type = MINOR
    THEN semver_to_str(Version(version.major, version.minor + 1, 0))
    ELSE semver_to_str(Version(version.major, version.minor, version.patch + 1))

(***************************************************************************)
(* Text files.  A text file is a sequence of tokens (records with a field  *)
(* t): a line terminator [t |-> "eol"], one character [t |-> "ch"], a run  *)
(* of other text [t |-> "text"], and for Cargo.toml a whole line:          *)
(* a table header [t |-> "table"] or a key/value line [t |-> "kv"].        *)
(***************************************************************************)
VARIABLES
    pc,              \* START, VALIDATE, PROMPT, APPLY, DONE, FAILED (IDLE: no run)
    cargo_toml,      \* the file Cargo.toml
    package_json,    \* the file package.json
    pre_install_js,  \* the file pre-install.js
    linesep,         \* os.linesep of the platform the script runs on
    v_rust, toml_content, v_js, json_data, semv_rust, semv_js,  \* locals of main
    bump_type, new_ver,                                         \* locals of main
    stdin_line,      \* the last line input() returned
    prompts,         \* number of input() calls
    guidance,        \* number of guidance messages printed
    written,         \* names of the files written so far, in order
    exit_code,       \* -1 while running, then the process's exit status
    error,           \* the uncaught exception, and the state it was raised in
    orig,            \* the three files as they were before the run
    call             \* SpecSemver: one call of parse_semver or bump_semver

files == <<cargo_toml, package_json, pre_install_js>>
locals == <<v_rust, toml_content, v_js, json_data, semv_rust, semv_js,
            bump_type, new_ver>>
console == <<stdin_line, prompts, guidance>>
vars == <<pc, files, linesep, locals, console, written, exit_code, error,
          orig, call>>

EOL(s) == [t |-> "eol", s |-> s]
Ch(c) == [t |-> "ch", c |-> c]
Text(s) == [t |-> "text", s |-> s]
Table(name) == [t |-> "table", name |-> name]
\* a key/value line of Cargo.toml; form is how the line is laid out:
\*   std      key = "val"          tight    key="val"
\*   wide     key   =   "val"      single   key = 'val'
\*   comment  key = "val" # ...    indent   <spaces>key = "val"
\*   int      key = 1 (val unused: the value is not a string)
KV(key, form, val) == [t |-> "kv", key |-> key, form |-> form, val |-> val]

\* the characters of a str, as tokens of a text file
Chars(s) == [i \in 1..Len(s) |-> Ch(s[i])]

\* open(name, "r").read(): universal newlines, every terminator reads as "\n"
read_text(file) ==
    [i \in 1..Len(file) |-> IF file[i].t = "eol" THEN EOL("LF") ELSE file[i]]

\* open(name, "w").write(content): "\n" is written as os.linesep
write_text(content) ==
    [i \in 1..Len(content) |->
        IF content[i].t = "eol" THEN EOL(linesep) ELSE content[i]]

(***************************************************************************)
(* Version reader, Cargo.toml.                                             *)
(***************************************************************************)
\* the table a line of the document belongs to ("" is the root table)
TableAt(file, i) ==
    LET hs == {j \in 1..(i - 1) : file[j].t = "table"}
    IN  IF hs = {} THEN ""
        ELSE file[CHOOSE j \in hs : \A k \in hs : k <= j].name

\* the lines that define package.version
PackageVersionLines(file) ==
    {i \in 1..Len(file) :
        /\ file[i].t = "kv"
        /\ \/ file[i].key = "version" /\ TableAt(file, i) = "package"
           \/ file[i].key = "package.version" /\ TableAt(file, i) = ""}

\* toml.load: what main reads of the parsed document
toml_load(file) ==
    LET ls == PackageVersionLines(file)
        l  == CHOOSE i \in ls : TRUE
    IN  [package |-> \/ \E i \in 1..Len(file) :
                            file[i].t = "table" /\ file[i].name = "package"
                     \/ ls # {},
         version |-> ls # {},
         isstr   |-> ls # {} /\ file[l].form # "int",
         value   |-> IF ls # {} THEN file[l].val ELSE <<>>]

load_version_from_toml(file) ==
    LET data == toml_load(file)
    IN  IF data.package /\ data.version /\ data.isstr
        THEN [ok |-> TRUE, version |-> data.value, content |-> read_text(file)]
        ELSE [ok |-> FALSE, err |-> "AssertionError"]

(***************************************************************************)
(* Version reader, package.json.  A JSON value is a record with a field    *)
(* type; an object holds its members in document order.  A Python dict is  *)
(* an object whose keys are distinct, in insertion order.                  *)
(***************************************************************************)
JStr(s) == [type |-> "string", s |-> s]
JNum(n) == [type |-> "number", n |-> n]
JArr == [type |-> "array"]
JObj(members) == [type |-> "object", members |-> members]
Member(key, value) == [key |-> key, value |-> value]

\* d[key] = value on a dict: an existing key keeps its place
dict_set(d, key, value) ==
    IF \E i \in 1..Len(d) : d[i].key = key
    THEN [i \in 1..Len(d) |->
            IF d[i].key = key THEN Member(key, value) ELSE d[i]]
    ELSE Append(d, Member(key, value))

dict_has(d, key) == \E i \in 1..Len(d) : d[i].key = key
dict_get(d, key) == d[CHOOSE i \in 1..Len(d) : d[i].key = key].value

\* json.load of a value: objects become dicts, a repeated key keeps its last value
RECURSIVE json_load(_)
RECURSIVE dict_of(_)
dict_of(members) ==
    IF members = <<>> THEN <<>>
    ELSE LET n == Len(members)
         IN  dict_set(dict_of(SubSeq(members, 1, n - 1)),
                      members[n].key, json_load(members[n].value))
json_load(value) ==
    IF value.type = "object" THEN JObj(dict_of(value.members)) ELSE value

load_version_from_json(file) ==
    LET data == json_load(file.doc)
    IN  IF /\ data.type = "object"
           /\ dict_has(data.members, "version")
           /\ dict_get(data.members, "version").type = "string"
        THEN [ok |-> TRUE, version |-> dict_get(data.members, "version").s,
              data |-> data.members]
        ELSE [ok |-> FALSE, err |-> "AssertionError"]

(***************************************************************************)
(* Writers.  Each gives the content its file holds after the write.        *)
(***************************************************************************)
\* json.dump(data, f, indent=2)
json_dump(data, indent) == [indent |-> indent, doc |-> JObj(data)]

\* new_version_to_json that dumps a fresh dict holding only the version
new_version_to_json_version_only(data, new_version) ==
    json_dump(<<Member("version", JStr(new_version))>>, 2)

new_version_to_json(data, new_version) ==
    json_dump(dict_set(data, "version", JStr(new_version)), 2)

\* a match of ^version\s*=\s*"[^"]+"$ (re.MULTILINE) at token i of content
VersionLineMatches(content, i) ==
    /\ content[i].t = "kv"
    /\ content[i].key = "version"
    /\ content[i].form \in {"std", "tight", "wide"}
    /\ Len(content[i].val) > 0
    /\ i = 1 \/ content[i - 1] = EOL("LF")
    /\ i = Len(content) \/ content[i + 1] = EOL("LF")

\* re.sub(pattern, f'version = "{new_version}"', content, count=1)
re_sub_version(content, new_version) ==
    LET ms == {i \in 1..Len(content) : VersionLineMatches(content, i)}
    IN  IF ms = {} THEN content
        ELSE [content EXCEPT ![CHOOSE i \in ms : \A j \in ms : i <= j] =
                                 KV("version", "std", new_version)]

new_version_to_toml(content, new_version) ==
    write_text(re_sub_version(content, new_version))

\* str.replace(old, new): every occurrence, left to right, not overlapping
RECURSIVE replace(_, _, _)
replace(s, old, new) ==
    IF Len(s) < Len(old) THEN s
    ELSE IF SubSeq(s, 1, Len(old)) = old
    THEN new \o replace(SubSeq(s, Len(old) + 1, Len(s)), old, new)
    ELSE <<s[1]>> \o replace(Tail(s), old, new)

LogText == Text("Installing and compiling rag-rs ")
InstallText == Text("cargo install rag-rs --vers ")

new_version_to_pre_install_js(file, old_version, new_version) ==
    LET content == read_text(file)
        old_v_log == <<LogText>> \o Chars(old_version)
        old_v_install == <<InstallText>> \o Chars(old_version)
        new_v_log == <<LogText>> \o Chars(new_version)
        new_v_install == <<InstallText>> \o Chars(new_version)
    IN  write_text(replace(replace(content, old_v_log, new_v_log),
                           old_v_install, new_v_install))

(***************************************************************************)
(* Interactive driver: main().                                             *)
(***************************************************************************)
LowerOf ==
    [c \in {"M", "A", "J", "O", "R", "I", "N", "P", "T", "C", "H"} |->
        CASE c = "M" -> "m" [] c = "A" -> "a" [] c = "J" -> "j" [] c = "O" -> "o"
          [] c = "R" -> "r" [] c = "I" -> "i" [] c = "N" -> "n" [] c = "P" -> "p"
          [] c = "T" -> "t" [] c = "C" -> "c" [] c = "H" -> "h"]

\* str.lower()
lower(s) ==
    [i \in 1..Len(s) |-> IF s[i] \in DOMAIN LowerOf THEN LowerOf[s[i]] ELSE s[i]]

Whitespace == {" ", "TAB"}

\* the input used as typed, surrounding whitespace kept
strip_nothing(s) == s

\* str.strip()
RECURSIVE strip(_)
strip(s) ==
    IF s = <<>> THEN s
    ELSE IF s[1] \in Whitespace THEN strip(Tail(s))
    ELSE IF s[Len(s)] \in Whitespace THEN strip(SubSeq(s, 1, Len(s) - 1))
    ELSE s

NoVersion == Version(-1, -1, -1)
NoError == [at |-> "", exc |-> ""]

\* an uncaught exception ends the process with status 1
Raise(exc) ==
    /\ error' = [at |-> pc, exc |-> exc]
    /\ exit_code' = 1
    /\ pc' = "FAILED"

\* lines 101-102: both manifests are loaded
Start ==
    /\ pc = "START"
    /\ LET t == load_version_from_toml(cargo_toml)
           j == load_version_from_json(package_json)
       IN  IF ~ t.ok
           THEN /\ Raise(t.err)
                /\ UNCHANGED <<v_rust, toml_content, v_js, json_data>>
           ELSE IF ~ j.ok
           THEN /\ Raise(j.err)
                /\ v_rust' = t.version
                /\ toml_content' = t.content
                /\ UNCHANGED <<v_js, json_data>>
           ELSE /\ v_rust' = t.version
                /\ toml_content' = t.content
                /\ v_js' = j.version
                /\ json_data' = j.data
                /\ pc' = "VALIDATE"
                /\ UNCHANGED <<exit_code, error>>
    /\ UNCHANGED <<files, linesep, semv_rust, semv_js, bump_type, new_ver,
                   console, written, orig, call>>

\* lines 103-107: both versions are parsed and compared
Validate ==
    /\ pc = "VALIDATE"
    /\ LET r == parse_semver(v_rust)
           j == parse_semver(v_js)
       IN  IF ~ r.ok
           THEN Raise(r.err) /\ UNCHANGED <<semv_rust, semv_js>>
           ELSE IF ~ j.ok
           THEN Raise(j.err) /\ semv_rust' = r.v /\ UNCHANGED semv_js
           ELSE /\ semv_rust' = r.v
                /\ semv_js' = j.v
                /\ IF compare_semver(r.v, j.v)
                   THEN pc' = "PROMPT" /\ UNCHANGED <<exit_code, error>>
                   ELSE Raise("AssertionError")
    /\ UNCHANGED <<files, linesep, v_rust, toml_content, v_js, json_data,
                   bump_type, new_ver, console, written, orig, call>>

\* what the operator may type at the prompt
Inputs ==
    { <<"m", "a", "j", "o", "r">>,
      <<" ", "M", "A", "J", "O", "R", " ">>,
      <<"M", "i", "n", "o", "r">>,
      <<"p", "a", "t", "c", "h", "TAB">>,
      <<"P", "A", "T", "C", "H">>,
      <<"f", "o", "o">>,
      <<>>,
      <<"m", "a", "j", "o", "r", "s">>,
      <<"m", "a", " ", "j", "o", "r">>,
      <<" ", " ">> }

\* lines 110-118: one turn of the loop, up to the new version
Prompt ==
    /\ pc = "PROMPT"
    /\ \E line \in Inputs :
         LET bt == strip(lower(line))
         IN  /\ guidance < MaxRetries \/ bt \in BumpTypes
             /\ stdin_line' = line
             /\ prompts' = prompts + 1
             /\ bump_type' = bt
             /\ IF bt \notin BumpTypes
                THEN /\ guidance' = guidance + 1
                     /\ UNCHANGED <<pc, new_ver>>
                ELSE /\ new_ver' = bump_semver(semv_rust, bt)
                     /\ pc' = "APPLY"
                     /\ UNCHANGED guidance
    /\ UNCHANGED <<files, linesep, v_rust, toml_content, v_js, json_data,
                   semv_rust, semv_js, written, exit_code, error, orig, call>>

\* a file that cannot be opened raises OSError and is left as it was
OpenFails ==
    /\ Raise("OSError")
    /\ UNCHANGED <<files, json_data, written>>

\* line 119
WriteJson ==
    /\ pc = "APPLY"
    /\ written = <<>>
    /\ \E opens \in BOOLEAN :
         IF opens
         THEN /\ json_data' = dict_set(json_data, "version", JStr(new_ver))
              /\ package_json' = new_version_to_json(json_data, new_ver)
              /\ written' = Append(written, "package.json")
              /\ UNCHANGED <<cargo_toml, pre_install_js, pc, exit_code, error>>
         ELSE OpenFails
    /\ UNCHANGED <<linesep, v_rust, toml_content, v_js, semv_rust, semv_js,
                   bump_type, new_ver, console, orig, call>>

\* line 120
WriteToml ==
    /\ pc = "APPLY"
    /\ written = <<"package.json">>
    /\ \E opens \in BOOLEAN :
         IF opens
         THEN /\ cargo_toml' = new_version_to_toml(toml_content, new_ver)
              /\ written' = Append(written, "Cargo.toml")
              /\ UNCHANGED <<package_json, pre_install_js, pc, exit_code, error>>
         ELSE OpenFails
    /\ UNCHANGED <<linesep, locals, console, orig, call>>

\* line 121
WritePreInstall ==
    /\ pc = "APPLY"
    /\ written = <<"package.json", "Cargo.toml">>
    /\ \E opens \in BOOLEAN :
         IF opens
         THEN /\ pre_install_js' =
                     new_version_to_pre_install_js(pre_install_js, v_rust, new_ver)
              /\ written' = Append(written, "pre-install.js")
              /\ UNCHANGED <<cargo_toml, package_json, pc, exit_code, error>>
         ELSE OpenFails
    /\ UNCHANGED <<linesep, locals, console, orig, call>>

\* lines 122-123: break, sys.exit(0)
Exit ==
    /\ pc = "APPLY"
    /\ Len(written) = 3
    /\ pc' = "DONE"
    /\ exit_code' = 0
    /\ UNCHANGED <<files, linesep, locals, console, written, error, orig, call>>

(***************************************************************************)
(* The files a run may find.                                               *)
(***************************************************************************)
V123 == <<"1", ".", "2", ".", "3">>
V129 == <<"1", ".", "2", ".", "9">>
V0123 == <<"0", "1", ".", "2", ".", "3">>
V12 == <<"1", ".", "2">>
\* the version strings a manifest may carry
Versions == {V123, V129, V0123, V12}
\* the version of a dependency, never the package's
OtherVersion == <<"9", ".", "9", ".", "9">>

\* the lines of a Cargo.toml whose package version is v
CargoDocs(v) ==
    { <<Table("package"), KV("name", "std", <<"rag-rs">>), KV("version", "std", v),
        Table("dependencies"), KV("serde", "std", <<"1.0">>)>>,
      <<Table("dependencies.serde"), KV("version", "std", OtherVersion),
        Table("package"), KV("version", "std", v)>>,
      <<Table("package"), KV("version", "tight", v)>>,
      <<Table("package"), KV("version", "comment", v),
        Table("dependencies.serde"), KV("version", "wide", OtherVersion)>>,
      <<Table("package"), KV("version", "single", v)>>,
      <<Table("package"), KV("version", "indent", v)>>,
      <<KV("package.version", "std", v)>>,
      <<Table("package"), KV("version", "std", v),
        Table("dependencies.serde"), KV("version", "std", v)>>,
      <<Table("workspace"), KV("version", "std", v)>>,
      <<Table("package"), KV("version", "int", <<>>)>>,
      <<Table("package"), KV("name", "std", <<"rag-rs">>)>> }

\* a text file of these lines, each ended by the terminator eol
RECURSIVE Lines(_, _)
Lines(ls, eol) ==
    IF ls = <<>> THEN <<>>
    ELSE <<Head(ls), EOL(eol)>> \o Lines(Tail(ls), eol)

\* a package.json whose version is v
JsonDocs(v) ==
    { [indent |-> 2,
       doc |-> JObj(<<Member("name", JStr(<<"rag-rs">>)),
                      Member("version", JStr(v)),
                      Member("scripts",
                             JObj(<<Member("preinstall", JStr(<<"node pre-install.js">>)),
                                    Member("version", JStr(OtherVersion))>>))>>)],
      [indent |-> 4,
       doc |-> JObj(<<Member("version", JStr(v)),
                      Member("name", JStr(<<"a">>)),
                      Member("name", JStr(<<"b">>))>>)],
      [indent |-> 2, doc |-> JObj(<<Member("name", JStr(<<"rag-rs">>))>>)],
      [indent |-> 2, doc |-> JObj(<<Member("version", JNum(1))>>)],
      [indent |-> 2, doc |-> JArr] }

\* a pre-install.js written when the package version was v
ScriptDocs(v, eol) ==
    { <<Text("console.log('"), LogText>> \o Chars(v) \o <<Text("');"), EOL(eol),
        Text("execSync('"), InstallText>> \o Chars(v) \o <<Text("');"), EOL(eol)>>,
      <<LogText>> \o Chars(v) \o <<Ch("0"), EOL(eol), InstallText>> \o Chars(v)
          \o <<Ch("0"), EOL(eol)>>,
      <<LogText>> \o Chars(OtherVersion) \o <<EOL(eol), InstallText>>
          \o Chars(OtherVersion) \o <<EOL(eol)>>,
      <<Text("// ")>> \o Chars(v) \o <<EOL(eol), InstallText>> \o Chars(v)
          \o <<EOL(eol), InstallText>> \o Chars(v) \o <<EOL(eol)>>,
      <<Text("'use strict';"), EOL(eol), Text("main();"), EOL(eol)>> }

NoCall == [fn |-> "none"]

\* main() has not started: nothing read, nothing printed, nothing written
Fresh ==
    /\ v_rust = <<>> /\ toml_content = <<>> /\ v_js = <<>> /\ json_data = <<>>
    /\ semv_rust = NoVersion /\ semv_js = NoVersion
    /\ bump_type = <<>> /\ new_ver = <<>>
    /\ stdin_line = <<>> /\ prompts = 0 /\ guidance = 0
    /\ written = <<>> /\ exit_code = -1 /\ error = NoError

Init ==
    /\ pc = "START"
    /\ \E v \in Versions, eol \in {"LF", "CRLF"} :
         /\ \E ls \in CargoDocs(v) : cargo_toml = Lines(ls, eol)
         /\ pre_install_js \in ScriptDocs(v, eol)
    /\ \E w \in Versions : package_json \in JsonDocs(w)
    /\ linesep \in {"LF", "CRLF"}
    /\ orig = [cargo |-> cargo_toml, json |-> package_json, js |-> pre_install_js]
    /\ Fresh
    /\ call = NoCall

Next ==
    \/ Start
    \/ Validate
    \/ Prompt
    \/ WriteJson
    \/ WriteToml
    \/ WritePreInstall
    \/ Exit

Spec == Init /\ [][Next]_vars

(***************************************************************************)
(* SpecSemver: parse_semver and bump_semver called on their own.           *)
(***************************************************************************)
ParseAlphabet == {"0", "1", "9", ".", "a", "u0663", "u00B2"}

\* every str over ParseAlphabet of at most MaxLen characters
ShortStrings == UNION {[1..n -> ParseAlphabet] : n \in 0..MaxLen}

\* longest run of zeros put in front of a component
MaxPad == 2

RECURSIVE Zeros(_)
Zeros(k) == IF k = 0 THEN <<>> ELSE <<"0">> \o Zeros(k - 1)

CoreComponents == {0, 1, 12}

\* a.b.c with k zeros in front of component i
Padded(a, b, c, i, k) ==
    (IF i = 1 THEN Zeros(k) ELSE <<>>) \o str(a) \o <<".">> \o
    (IF i = 2 THEN Zeros(k) ELSE <<>>) \o str(b) \o <<".">> \o
    (IF i = 3 THEN Zeros(k) ELSE <<>>) \o str(c)

PreReleaseTags == { <<"-", "r", "c">>, <<"-", "r", "c", ".", "1">>, <<"-", "1">>, <<"-", "0", ".", "3", ".", "7">> }
BuildTags == { <<"+", "5">>, <<"+", "e", "x", "p", ".", "s", "h", "a">>, <<"+", "0", "0", "1">> }

\* version strings with leading zeros, a fourth component, pre-release tags
\* and build metadata
DecoratedStrings ==
    UNION { {Padded(a, b, c, i, k) : i \in 1..3, k \in 0..MaxPad}
            \cup {Padded(a, b, c, 1, 0) \o <<".">> \o str(d) : d \in CoreComponents}
            \cup {Padded(a, b, c, 1, k) \o t : k \in 0..MaxPad,
                    t \in PreReleaseTags \cup BuildTags
                          \cup {p \o m : p \in PreReleaseTags, m \in BuildTags}}
          : a \in CoreComponents, b \in CoreComponents, c \in CoreComponents }

ParseCall(s) == [fn |-> "parse_semver", arg |-> s, done |-> FALSE]
BumpCall(v, kind) == [fn |-> "bump_semver", arg |-> v, kind |-> kind, done |-> FALSE]

SemverInit ==
    /\ pc = "IDLE"
    /\ cargo_toml = <<>> /\ package_json = [indent |-> 2, doc |-> JObj(<<>>)]
    /\ pre_install_js = <<>> /\ linesep = "LF"
    /\ orig = [cargo |-> cargo_toml, json |-> package_json, js |-> pre_install_js]
    /\ Fresh
    /\ \/ \E s \in ShortStrings \cup DecoratedStrings : call = ParseCall(s)
       \/ \E a \in 0..MaxComponent, b \in 0..MaxComponent, c \in 0..MaxComponent,
             kind \in BumpTypes : call = BumpCall(Version(a, b, c), kind)

Parse ==
    /\ call.fn = "parse_semver" /\ ~ call.done
    /\ call' = [call EXCEPT !.done = TRUE] @@ [result |-> parse_semver(call.arg)]
    /\ UNCHANGED <<pc, files, linesep, locals, console, written, exit_code,
                   error, orig>>

Bump ==
    /\ call.fn = "bump_semver" /\ ~ call.done
    /\ call' = [call EXCEPT !.done = TRUE]
                 @@ [result |-> bump_semver(call.arg, call.kind)]
    /\ UNCHANGED <<pc, files, linesep, locals, console, written, exit_code,
                   error, orig>>

SemverNext ==
    \/ Parse
    \/ Bump

SpecSemver == SemverInit /\ [][SemverNext]_vars

(***************************************************************************)
(* Properties.                                                             *)
(***************************************************************************)
DecimalDigits == AsciiDigits \cup {"u0663"}

\* seg is n written in ASCII decimal digits with no padding
Renders(seg, n) ==
    /\ Len(seg) > 0
    /\ \A i \in 1..Len(seg) : seg[i] \in AsciiDigits
    /\ Len(seg) = 1 \/ seg[1] # "0"
    /\ int(seg) = n

\* s is "a.b.c", each component rendered without padding
IsDotted(s, a, b, c) ==
    \E i \in 1..Len(s), j \in 1..Len(s) :
        /\ i < j /\ s[i] = "." /\ s[j] = "."
        /\ Renders(SubSeq(s, 1, i - 1), a)
        /\ Renders(SubSeq(s, i + 1, j - 1), b)
        /\ Renders(SubSeq(s, j + 1, Len(s)), c)

ParseDone == call.fn = "parse_semver" /\ call.done
BumpDone == call.fn = "bump_semver" /\ call.done

\* C4: for every version (major, minor, patch), bump_semver with patch gives
\* "major.minor.(patch+1)", with minor "major.(minor+1).0" and with major
\* "(major+1).0.0", each component in decimal without padding.
C4_BumpComponents ==
    BumpDone =>
        LET v == call.arg
        IN  /\ call.kind = PATCH =>
                 IsDotted(call.result, v.major, v.minor, v.patch + 1)
            /\ call.kind = MINOR =>
                 IsDotted(call.result, v.major, v.minor + 1, 0)
            /\ call.kind = MAJOR =>
                 IsDotted(call.result, v.major + 1, 0, 0)

\* a minor bump of 1.9.9 has given "1.10.0"
C4_Witness ==
    /\ BumpDone
    /\ call.arg = Version(1, 9, 9) /\ call.kind = MINOR
    /\ call.result = <<"1", ".", "1", "0", ".", "0">>

DotPositions(s) == {i \in 1..Len(s) : s[i] = "."}

IsDecimal(seg) == Len(seg) > 0 /\ \A i \in 1..Len(seg) : seg[i] \in DecimalDigits

\* s has exactly two dots and three non-empty segments of decimal digits
ThreeDecimalSegments(s) ==
    /\ Cardinality(DotPositions(s)) = 2
    /\ LET i == CHOOSE x \in DotPositions(s) : \A y \in DotPositions(s) : x <= y
           j == CHOOSE x \in DotPositions(s) : \A y \in DotPositions(s) : y <= x
       IN  /\ IsDecimal(SubSeq(s, 1, i - 1))
           /\ IsDecimal(SubSeq(s, i + 1, j - 1))
           /\ IsDecimal(SubSeq(s, j + 1, Len(s)))

SegmentValues(s) ==
    LET i == CHOOSE x \in DotPositions(s) : \A y \in DotPositions(s) : x <= y
        j == CHOOSE x \in DotPositions(s) : \A y \in DotPositions(s) : y <= x
    IN  Version(int(SubSeq(s, 1, i - 1)), int(SubSeq(s, i + 1, j - 1)),
                int(SubSeq(s, j + 1, Len(s))))

\* C7: parse_semver succeeds exactly on the strings that split on "." into three
\* segments of decimal digits (an empty segment is not one), and then gives the
\* triple of the segments' integer values; on every other string it fails.
C7_ParseIff ==
    ParseDone =>
        IF ThreeDecimalSegments(call.arg)
        THEN call.result.ok /\ call.result.v = SegmentValues(call.arg)
        ELSE ~ call.result.ok

\* "1.9.0" has been parsed to (1, 9, 0)
C7_Witness ==
    /\ ParseDone
    /\ call.arg = <<"1", ".", "9", ".", "0">>
    /\ call.result.ok /\ call.result.v = Version(1, 9, 0)

\* a component of s starts with a zero that another digit follows
HasLeadingZero(s) ==
    \E i \in 1..(Len(s) - 1) :
        /\ s[i] = "0"
        /\ i = 1 \/ s[i - 1] = "."
        /\ s[i + 1] \in DecimalDigits

\* s carries a pre-release tag ("-...") or build metadata ("+...")
HasTag(s) == \E i \in 1..Len(s) : s[i] \in {"-", "+"}

\* C8 as stated: parse_semver fails on every string with a leading zero in a
\* component, a pre-release tag or build metadata.
C8_Original ==
    ParseDone /\ (HasLeadingZero(call.arg) \/ HasTag(call.arg)) => ~ call.result.ok

\* C8 as amended: parse_semver fails on every string with a pre-release tag or
\* build metadata; leading zeros do not make it fail: three segments of decimal
\* digits parse to their integer values, leading zeros dropped.
C8_TagsFailZerosPass ==
    ParseDone =>
        /\ HasTag(call.arg) => ~ call.result.ok
        /\ HasLeadingZero(call.arg) /\ ThreeDecimalSegments(call.arg) =>
             call.result.ok /\ call.result.v = SegmentValues(call.arg)

\* "1.0.12-rc.1" has been refused
C8_Witness ==
    /\ ParseDone
    /\ call.arg = <<"1", ".", "0", ".", "1", "2", "-", "r", "c", ".", "1">>
    /\ ~ call.result.ok

(***************************************************************************)
(* Properties of a run of main().                                          *)
(***************************************************************************)
\* the version main reads from the Cargo.toml and the package.json it finds
ReadRust == load_version_from_toml(orig.cargo)
ReadJs == load_version_from_json(orig.json)

\* both manifests load and both versions parse
BothParse ==
    /\ ReadRust.ok /\ ReadJs.ok
    /\ parse_semver(ReadRust.version).ok /\ parse_semver(ReadJs.version).ok

\* the version field of a package.json
JsonVersion(file) ==
    LET ms == file.doc.members
        ks == {i \in 1..Len(ms) : ms[i].key = "version"}
    IN  ms[CHOOSE i \in ks : \A j \in ks : j <= i].value

\* C1 as stated: when both manifests parse to the same triple v and a bump class
\* kind is accepted, at DONE the version of package.json and the package.version
\* of Cargo.toml are both the formatted bump(v, kind).
C1_BothManifestsBumped ==
    pc = "DONE" =>
        LET expected == bump_semver(parse_semver(ReadRust.version).v, bump_type)
        IN  /\ JsonVersion(package_json) = JStr(expected)
            /\ toml_load(cargo_toml).value = expected

\* the two versions parse to triples that differ in some component
Mismatch ==
    /\ BothParse
    /\ parse_semver(ReadRust.version).v # parse_semver(ReadJs.version).v

FilesUntouched ==
    /\ cargo_toml = orig.cargo /\ package_json = orig.json
    /\ pre_install_js = orig.js
    /\ written = <<>>

\* C2: when the two versions parse to different triples the run fails in
\* VALIDATE before any prompt, never reaches APPLY or DONE, and leaves the
\* three files as they were.
C2_MismatchFailsInValidate ==
    Mismatch =>
        /\ pc \in {"START", "VALIDATE", "FAILED"}
        /\ pc = "FAILED" => error.at = "VALIDATE" /\ exit_code = 1
        /\ prompts = 0 /\ guidance = 0
        /\ FilesUntouched

\* 1.2.3 against 1.2.9 has failed the assertion of VALIDATE
C2_Witness ==
    /\ Mismatch
    /\ ReadRust.version = V123 /\ ReadJs.version = V129
    /\ pc = "FAILED"
    /\ error = [at |-> "VALIDATE", exc |-> "AssertionError"]

\* line is kind in any letter case, with whitespace before and after it only
Typed(line, kind) ==
    \E i \in 1..(Len(line) + 1) :
        /\ i + Len(kind) - 1 <= Len(line)
        /\ \A k \in 1..(i - 1) : line[k] \in Whitespace
        /\ \A k \in (i + Len(kind))..Len(line) : line[k] \in Whitespace
        /\ \A k \in 1..Len(kind) :
             \/ line[i + k - 1] = kind[k]
             \/ /\ line[i + k - 1] \in DOMAIN LowerOf
                /\ LowerOf[line[i + k - 1]] = kind[k]

\* C3: in PROMPT the driver moves to APPLY exactly when the input, lowercased
\* and trimmed, is major, minor or patch; on any other input it prints the
\* guidance message, writes no file and stays in PROMPT.
C3_PromptStep ==
    [][pc = "PROMPT" =>
         LET valid == \E kind \in BumpTypes : Typed(stdin_line', kind)
         IN  /\ pc' = "APPLY" <=> valid
             /\ valid => /\ Typed(stdin_line', bump_type')
                         /\ guidance' = guidance
             /\ ~ valid => /\ pc' = "PROMPT"
                           /\ guidance' = guidance + 1
                           /\ files' = files /\ written' = written]_vars

\* after two refused inputs in a row, " MAJOR " has been taken as major
C3_Witness ==
    /\ pc = "APPLY"
    /\ guidance = 2 /\ prompts = 3
    /\ stdin_line = <<" ", "M", "A", "J", "O", "R", " ">>
    /\ bump_type = MAJOR

KeysOf(members) == {members[i].key : i \in 1..Len(members)}

\* the value a document gives a key (of a repeated key, the last)
ValueOf(members, key) ==
    LET ks == {i \in 1..Len(members) : members[i].key = key}
    IN  members[CHOOSE i \in ks : \A j \in ks : j <= i].value

\* C5: at DONE package.json has the keys it had before the run, every key other
\* than version with the value it had, and a different value of version.
C5_JsonOtherFieldsKept ==
    pc = "DONE" =>
        LET before == orig.json.doc.members
            after == package_json.doc.members
        IN  /\ KeysOf(after) = KeysOf(before)
            /\ \A k \in KeysOf(before) \ {"version"} :
                 ValueOf(after, k) = ValueOf(before, k)
            /\ ValueOf(after, "version") # ValueOf(before, "version")

\* a run is DONE on a package.json that also has name and scripts
C5_Witness ==
    /\ pc = "DONE"
    /\ KeysOf(orig.json.doc.members) = {"name", "version", "scripts"}
    /\ ValueOf(package_json.doc.members, "version") = JStr(new_ver)

\* content with the old version replaced by the new one in every occurrence of
\* the log text and of the install command, in one pass
RECURSIVE Substituted(_, _, _)
Substituted(s, old, new) ==
    IF s = <<>> THEN s
    ELSE IF /\ s[1] \in {LogText, InstallText}
            /\ Len(s) > Len(old)
            /\ SubSeq(s, 2, Len(old) + 1) = Chars(old)
    THEN <<s[1]>> \o Chars(new)
           \o Substituted(SubSeq(s, Len(old) + 2, Len(s)), old, new)
    ELSE <<s[1]>> \o Substituted(Tail(s), old, new)

\* C6 as stated: the installer-script writer changes pre-install.js only where
\* the log text or the install command embeds the old version, which becomes the
\* new one; all other content is unchanged, and with neither present the file
\* content is unchanged.
C6_ScriptOnlyVersionChanged ==
    "pre-install.js" \in {written[i] : i \in 1..Len(written)} =>
        pre_install_js = Substituted(orig.js, v_rust, new_ver)

\* the same with line terminators left out of the comparison
ScriptTextOnlyVersionChanged ==
    "pre-install.js" \in {written[i] : i \in 1..Len(written)} =>
        read_text(pre_install_js) = Substituted(read_text(orig.js), v_rust, new_ver)

\* a line that assigns the str val to the key version, at the start of the line
IsVersionLine(tok, val) ==
    /\ tok.t = "kv" /\ tok.key = "version"
    /\ tok.form \in {"std", "tight", "wide"}
    /\ tok.val = val

\* C9 as stated: the TOML-like writer changes at most one line of Cargo.toml,
\* the first line version = "<old>" with <old> the package version read at
\* START, which becomes version = "<new>"; every other line, a version line of
\* another table included, is written back unchanged, and with no such line
\* the file is unchanged.  (Lines are compared, not their terminators.)
C9_OnlyOldVersionLineChanged ==
    "Cargo.toml" \in {written[i] : i \in 1..Len(written)} =>
        LET before == read_text(orig.cargo)
            ls == {i \in 1..Len(before) : IsVersionLine(before[i], v_rust)}
            expected ==
                IF ls = {} THEN before
                ELSE [before EXCEPT ![CHOOSE i \in ls : \A j \in ls : i <= j] =
                                        KV("version", "std", new_ver)]
        IN  read_text(cargo_toml) = expected

WriteOrder == <<"package.json", "Cargo.toml", "pre-install.js">>

\* the files are written in APPLY only, in the order package.json, Cargo.toml,
\* pre-install.js, each at most once, DONE follows the three writes, and after
\* a failed later write package.json holds the new version
WritesInOrder ==
    /\ Len(written) <= 3 /\ written = SubSeq(WriteOrder, 1, Len(written))
    /\ written = <<>> => FilesUntouched
    /\ written # <<>> => pc \in {"APPLY", "DONE", "FAILED"}
    /\ pc = "FAILED" /\ written # <<>> => error.at = "APPLY"
    /\ pc = "DONE" => written = WriteOrder /\ exit_code = 0
    /\ Len(written) < 1 => package_json = orig.json
    /\ Len(written) < 2 => cargo_toml = orig.cargo
    /\ Len(written) < 3 => pre_install_js = orig.js
    /\ pc = "FAILED" /\ Len(written) >= 1 =>
         JsonVersion(package_json) = JStr(new_ver)

\* C10 as stated: the three files are written only in APPLY, in the order
\* package.json, Cargo.toml, pre-install.js, each at most once; DONE (exit code
\* 0) is reached only after the three writes, and a failure of a later write
\* leaves the files written before it holding the new version.
C10_OrderedWritesKeepNewVersion ==
    /\ WritesInOrder
    /\ pc = "FAILED" /\ Len(written) >= 2 =>
         toml_load(cargo_toml).value = new_ver

====
